---- MODULE Spec2Model ----
(***************************************************************************)
(* A model of scripts/get_links.py: the Linktree page is fetched, the      *)
(* embedded JSON block is parsed, the entries having a "url" are kept and  *)
(* each of them is captured (thumbnail download, descriptor file).         *)
(*                                                                         *)
(* Text is a sequence of one-character strings.  A character outside      *)
(* ASCII is written by its code point ("U+0130").  A JSON object is a      *)
(* function whose domain is the set of its keys; JSON null and Python's    *)
(* None are the record None; a JSON string is Str(text).                   *)
(***************************************************************************)
EXTENDS Integers, Sequences, FiniteSets, TLC

VARIABLES
    pc,            \* the statement the script is at
    argv_len,      \* len(sys.argv)
    response,      \* collect_link_definitions: response (kept as the run's input)
    data_json,     \* collect_link_definitions: data_json
    data,          \* collect_link_definitions: data
    links,         \* module level: links (the valid links)
    idx,           \* module level: the position of the for loop in links, from 1
    link,          \* capture_link: link
    priority,      \* capture_link: priority
    img,           \* capture_link: img
    img_fn,        \* capture_link: img_fn
    image_link,    \* capture_link: image_link
    img_response,  \* capture_link: img_response
    fs,            \* the files written: path -> content
    error,         \* the exception that ended the run, "none" while there is none
    events,        \* history: the prints, HTTP GETs and file writes, in order
    stub_in,       \* stub_title: title
    stub_out,      \* stub_title: the value returned
    stub_twice     \* stub_title: the value returned for the slug stub_out

vars == <<pc, argv_len, response, data_json, data, links, idx, link, priority,
          img, img_fn, image_link, img_response, fs, error, events,
          stub_in, stub_out, stub_twice>>

stub_vars == <<stub_in, stub_out, stub_twice>>

-----------------------------------------------------------------------------
(* Bounds *)

MaxLinks == 2

MaxPos == 1

MaxTitleLen == 3

-----------------------------------------------------------------------------
(* Values *)

None == [t |-> "null"]

Str(s) == [t |-> "str", s |-> s]

EmptyObj == [k \in {} |-> None]

\* Python's truth value of a value that is None or a string.
Truthy(v) == v.t = "str" /\ v.s # <<>>

LINK_ROOT == <<".", ".", "/", "_", "l", "i", "n", "k", "s">>

IMAGE_ROOT == <<".", ".", "/", "i", "m", "a", "g", "e", "s">>

IMAGE_WEB_ROOT == <<"/", "i", "m", "a", "g", "e", "s">>

RECURSIVE BoundedSeq(_, _)
BoundedSeq(S, n) ==
    IF n = 0 THEN {<<>>}
    ELSE LET shorter == BoundedSeq(S, n - 1)
         IN  shorter \cup {Append(s, x) : s \in {t \in shorter : Len(t) = n - 1}, x \in S}

-----------------------------------------------------------------------------
(* Text operations of the Python library, as the script uses them *)

AsciiLower == {"a", "b", "c", "d", "e", "f", "g", "h", "i", "j", "k", "l", "m",
               "n", "o", "p", "q", "r", "s", "t", "u", "v", "w", "x", "y", "z"}

AsciiUpper == {"A", "B", "C", "D", "E", "F", "G", "H", "I", "J", "K", "L", "M",
               "N", "O", "P", "Q", "R", "S", "T", "U", "V", "W", "X", "Y", "Z"}

AsciiDigit == {"0", "1", "2", "3", "4", "5", "6", "7", "8", "9"}

UpperToLower ==
    [c \in AsciiUpper |->
        CASE c = "A" -> "a" [] c = "B" -> "b" [] c = "C" -> "c" [] c = "D" -> "d"
          [] c = "E" -> "e" [] c = "F" -> "f" [] c = "G" -> "g" [] c = "H" -> "h"
          [] c = "I" -> "i" [] c = "J" -> "j" [] c = "K" -> "k" [] c = "L" -> "l"
          [] c = "M" -> "m" [] c = "N" -> "n" [] c = "O" -> "o" [] c = "P" -> "p"
          [] c = "Q" -> "q" [] c = "R" -> "r" [] c = "S" -> "s" [] c = "T" -> "t"
          [] c = "U" -> "u" [] c = "V" -> "v" [] c = "W" -> "w" [] c = "X" -> "x"
          [] c = "Y" -> "y" [] c = "Z" -> "z"]

\* str.lower() of one character.  U+0130 (capital I with dot above) lowers to
\* two characters, "i" and U+0307 (combining dot above); U+00C9 (capital E
\* with acute) lowers to U+00E9; U+212A (the Kelvin sign) lowers to "k".
lower_char(c) ==
    CASE c \in AsciiUpper -> <<UpperToLower[c]>>
      [] c = "U+0130" -> <<"i", "U+0307">>
      [] c = "U+00C9" -> <<"U+00E9">>
      [] c = "U+212A" -> <<"k">>
      [] OTHER -> <<c>>

\* str.lower()
RECURSIVE lower(_)
lower(s) == IF s = <<>> THEN <<>> ELSE lower_char(Head(s)) \o lower(Tail(s))

\* The character class [a-zA-Z0-9] of the first pattern of stub_title.
InClass(c) == c \in AsciiLower \cup AsciiUpper \cup AsciiDigit

RECURSIVE DropRun(_)
DropRun(s) ==
    IF s = <<>> \/ InClass(Head(s)) THEN s ELSE DropRun(Tail(s))

\* re.sub(r"[^a-zA-Z0-9]+", "-", s): every maximal run of characters outside
\* the class becomes one hyphen.
RECURSIVE sub_runs(_)
sub_runs(s) ==
    IF s = <<>> THEN <<>>
    ELSE IF InClass(Head(s)) THEN <<Head(s)>> \o sub_runs(Tail(s))
    ELSE <<"-">> \o sub_runs(DropRun(Tail(s)))

RECURSIVE DropLeadingHyphens(_)
DropLeadingHyphens(s) ==
    IF s # <<>> /\ Head(s) = "-" THEN DropLeadingHyphens(Tail(s)) ELSE s

RECURSIVE DropTrailingHyphens(_)
DropTrailingHyphens(s) ==
    IF s # <<>> /\ s[Len(s)] = "-"
    THEN DropTrailingHyphens(SubSeq(s, 1, Len(s) - 1))
    ELSE s

\* re.sub(r"^-+|-+$", "", s), on a text that holds no newline (sub_runs has
\* replaced every one): the hyphens at the start and at the end are removed.
sub_edges(s) == DropTrailingHyphens(DropLeadingHyphens(s))

\* A slug that keeps the case of the title (lower() forgotten).
stub_title_keep_case(title) == sub_edges(sub_runs(title))

stub_title(title) == sub_edges(sub_runs(lower(title)))

\* str.split(sep), sep one character.
RECURSIVE split(_, _)
split(s, sep) ==
    IF \A i \in 1..Len(s) : s[i] # sep THEN <<s>>
    ELSE LET i == CHOOSE k \in 1..Len(s) :
                      s[k] = sep /\ \A j \in 1..(k - 1) : s[j] # sep
         IN  <<SubSeq(s, 1, i - 1)>> \o split(SubSeq(s, i + 1, Len(s)), sep)

\* f"{n}" of an integer n >= 0: its decimal digits.
DigitChar == <<"0", "1", "2", "3", "4", "5", "6", "7", "8", "9">>

RECURSIVE format_int(_)
format_int(n) ==
    IF n < 10 THEN <<DigitChar[n + 1]>>
    ELSE format_int(n \div 10) \o <<DigitChar[(n % 10) + 1]>>

-----------------------------------------------------------------------------
(* The inputs: link entries, pages, HTTP outcomes *)

\* A link entry of the payload: a JSON object with the keys `keys`.
Entry(keys, url, position, title, thumbnail, modifiers) ==
    [k \in keys |->
        CASE k = "url" -> url
          [] k = "position" -> position
          [] k = "title" -> title
          [] k = "thumbnail" -> thumbnail
          [] k = "modifiers" -> modifiers]

SiteUrl == <<"h", ":", "/", "/", "e">>

ThumbA == <<"h", ":", "/", "/", "c", "/", "a", ".", "p">>

ThumbB == <<"h", ":", "/", "/", "c", "/", "b", ".", "p">>

ThumbDir == <<"h", ":", "/", "/", "c", "/">>

\* Titles of the pipeline's entries: two that share the slug "a", one whose
\* slug is empty.
Titles == {<<"A", "!">>, <<"a">>, <<"!">>}

\* The positions of the entries capture_link is checked on: the small ones, and
\* two whose priority has more than one digit.
Positions == (0..MaxPos) \cup {9, 99}

\* The ways an entry carries (or does not carry) a thumbnail: the keys among
\* "thumbnail" and "modifiers" it has, and their values.
ThumbShapes ==
    {[keys |-> ks, thumbnail |-> th, modifiers |-> m] :
        ks \in SUBSET {"thumbnail", "modifiers"},
        th \in {None, Str(<<>>), Str(ThumbA), Str(ThumbDir)},
        m \in {EmptyObj, [thumbnailImage |-> None], [thumbnailImage |-> Str(ThumbB)]}}

\* Every entry capture_link is checked on: it has url, position and title.
LinkEntries ==
    {Entry({"url", "position", "title"} \cup sh.keys, SiteUrl, p, t,
           sh.thumbnail, sh.modifiers) :
        p \in Positions, t \in Titles, sh \in ThumbShapes}

\* The entries of the pipeline's payloads: two without url (dropped), and with
\* url every title with no thumbnail, a direct one, or one under modifiers,
\* the thumbnail-less ones at a second position, and one whose thumbnail URL
\* has no last segment.
PageEntries ==
    {Entry({"position", "title", "thumbnail"}, SiteUrl, 0, <<"a">>, Str(ThumbA), EmptyObj),
     Entry({"position", "title"}, SiteUrl, 1, <<"!">>, None, EmptyObj)}
      \cup {Entry({"url", "position", "title"} \cup ks, SiteUrl, 0, t, Str(ThumbA),
                  [thumbnailImage |-> Str(ThumbB)]) :
               ks \in {{}, {"thumbnail"}, {"modifiers"}}, t \in Titles}
      \cup {Entry({"url", "position", "title"}, SiteUrl, 1, t, None, EmptyObj) :
               t \in Titles}
      \cup {Entry({"url", "position", "title", "thumbnail"}, SiteUrl, 1, <<"a">>,
                  Str(ThumbDir), EmptyObj)}

Invalid == [t |-> "invalid"]

\* The text of a script element, by what json.loads makes of it.
Script(json) == [t |-> "str", json |-> json]

Payload(all_links) == [props |-> [pageProps |-> [links |-> all_links]]]

\* A page is the list of its <script type="application/json"> elements'
\* strings (None for an element with no text).
Page(scripts) == [scripts |-> scripts]

BrokenPages ==
    {Page(<<>>), Page(<<None>>), Page(<<Script(Invalid)>>),
     Page(<<Script(EmptyObj)>>),
     Page(<<Script([props |-> EmptyObj])>>),
     Page(<<Script([props |-> [pageProps |-> EmptyObj]])>>),
     Page(<<Script(Invalid), Script(Payload(<<>>))>>)}

Pages ==
    BrokenPages
      \cup {Page(<<Script(Payload(l))>>) : l \in BoundedSeq(PageEntries, MaxLinks)}

HttpResponse(status, content) == [status |-> status, content |-> content]

\* The status codes the server answers with: one success, one non-success.
StatusCodes == {200, 404}

IsSuccess(status) == status \in 200..299

\* What requests.get(page) returns when it returns.
PageResponses == {HttpResponse(st, p) : st \in StatusCodes, p \in Pages}

\* What requests.get(img) returns when it returns: the image, or the body of
\* an error page.
ImageResponses ==
    {HttpResponse(200, <<"PNG">>), HttpResponse(404, <<"404">>)}

Event(op, i, arg, status, body) ==
    [op |-> op, i |-> i, arg |-> arg, status |-> status, body |-> body]

write_file(files, path, content) ==
    [p \in DOMAIN files \cup {path} |-> IF p = path THEN content ELSE files[p]]

NoFiles == [p \in {} |-> <<>>]

-----------------------------------------------------------------------------
(* The script *)

raise(exc) ==
    /\ pc' = "aborted"
    /\ error' = exc

\* Lines 27-30: the argument count.
Main ==
    /\ pc = "main"
    /\ IF argv_len = 2
       THEN pc' = "fetch_page" /\ error' = error
       ELSE raise("ValueError")
    /\ UNCHANGED <<argv_len, response, data_json, data, links, idx, link,
                   priority, img, img_fn, image_link, img_response, fs, events,
                   stub_vars>>

\* Line 136: requests.get raises (connection error, timeout), or returns the
\* response whatever its status.
FetchPage ==
    /\ pc = "fetch_page"
    /\ \/ /\ raise("RequestException")
          /\ UNCHANGED response
       \/ /\ \E r \in PageResponses : response' = r
          /\ pc' = "extract"
          /\ error' = error
    /\ UNCHANGED <<argv_len, data_json, data, links, idx, link, priority, img,
                   img_fn, image_link, img_response, fs, events, stub_vars>>

\* Lines 137-141: the first script element's string, parsed as JSON.
ExtractPayload ==
    /\ pc = "extract"
    /\ LET data_block == response.content.scripts
       IN  IF data_block = <<>>
           THEN raise("IndexError") /\ UNCHANGED <<data_json, data>>
           ELSE /\ data_json' = data_block[1]
                /\ IF data_block[1] = None
                   THEN raise("TypeError") /\ UNCHANGED data
                   ELSE IF data_block[1].json = Invalid
                   THEN raise("JSONDecodeError") /\ UNCHANGED data
                   ELSE /\ data' = data_block[1].json
                        /\ pc' = "normalize"
                        /\ error' = error
    /\ UNCHANGED <<argv_len, response, links, idx, link, priority, img, img_fn,
                   image_link, img_response, fs, events, stub_vars>>

\* A filter that keeps every entry.
valid_links_keep_all(all_links) == all_links

\* Line 144: [link for link in all_links if "url" in link]
valid_links(all_links) == SelectSeq(all_links, LAMBDA l : "url" \in DOMAIN l)

\* A lookup that answers a missing path with an empty list.
lookup_links_default_empty(d) ==
    IF "props" \in DOMAIN d /\ "pageProps" \in DOMAIN d.props
         /\ "links" \in DOMAIN d.props.pageProps
    THEN [ok |-> TRUE, value |-> d.props.pageProps.links]
    ELSE [ok |-> TRUE, value |-> <<>>]

\* Line 143: data["props"]["pageProps"]["links"]; a missing key is a KeyError.
lookup_links(d) ==
    IF "props" \in DOMAIN d /\ "pageProps" \in DOMAIN d.props
         /\ "links" \in DOMAIN d.props.pageProps
    THEN [ok |-> TRUE, value |-> d.props.pageProps.links]
    ELSE [ok |-> FALSE, value |-> <<>>]

\* Lines 143-149: the path to the links, the filter, the return.
NormalizeLinks ==
    /\ pc = "normalize"
    /\ LET found == lookup_links(data)
       IN  IF found.ok
           THEN /\ links' = valid_links(found.value)
                /\ idx' = 0
                /\ pc' = "loop"
                /\ error' = error
           ELSE raise("KeyError") /\ UNCHANGED <<links, idx>>
    /\ UNCHANGED <<argv_len, response, data_json, data, link, priority, img,
                   img_fn, image_link, img_response, fs, events, stub_vars>>

\* Line 152: the for loop takes the next link, or ends.
ForLoop ==
    /\ pc = "loop"
    /\ IF idx < Len(links)
       THEN /\ idx' = idx + 1
            /\ link' = links[idx + 1]
            /\ pc' = "capture"
       ELSE /\ pc' = "done"
            /\ UNCHANGED <<idx, link>>
    /\ UNCHANGED <<argv_len, response, data_json, data, links, priority, img,
                   img_fn, image_link, img_response, fs, error, events,
                   stub_vars>>

\* A lookup that prefers modifiers.thumbnailImage to the direct field.
resolve_thumbnail_modifiers_first(l) ==
    IF "modifiers" \in DOMAIN l /\ "thumbnailImage" \in DOMAIN l.modifiers
    THEN l.modifiers.thumbnailImage
    ELSE IF "thumbnail" \in DOMAIN l
    THEN l.thumbnail
    ELSE None

\* Lines 103-108: the thumbnail of a link.
resolve_thumbnail(l) ==
    IF "thumbnail" \in DOMAIN l
    THEN l.thumbnail
    ELSE IF "modifiers" \in DOMAIN l /\ "thumbnailImage" \in DOMAIN l.modifiers
    THEN l.modifiers.thumbnailImage
    ELSE None

\* The position taken as the priority.
priority_of_zero_based(l) == l.position

\* Line 96
priority_of(l) == l.position + 1

ProgressLine(title) ==
    <<"C", "o", "l", "l", "e", "c", "t", "i", "n", "g", " ">> \o title
        \o <<".", ".", ".">>

DownloadLine ==
    <<" ", " ", " ", ".", ".", ".", "d", "o", "w", "n", "l", "o", "a", "d",
      "i", "n", "g", " ", "t", "h", "u", "m", "b", "n", "a", "i", "l">>

\* Lines 96-110: the priority, the progress line, the thumbnail.
CaptureStart ==
    /\ pc = "capture"
    /\ priority' = priority_of(link)
    /\ img_fn' = None
    /\ image_link' = None
    /\ events' = Append(events, Event("print", idx, ProgressLine(link.title), 0, <<>>))
    /\ img' = resolve_thumbnail(link)
    /\ pc' = IF Truthy(img') THEN "download" ELSE "write_link"
    /\ UNCHANGED <<argv_len, response, data_json, data, links, idx, link,
                   img_response, fs, error, stub_vars>>

\* Line 112: img.split("/")[-1]
img_name_of(url) == LET parts == split(url, "/") IN parts[Len(parts)]

\* A download whose failure is swallowed: the link is written without image.
DownloadThumbnailSwallow ==
    /\ pc = "download"
    /\ LET img_name == img_name_of(img.s)
       IN  /\ events' = events
                 \o <<Event("print", idx, DownloadLine, 0, <<>>),
                      Event("get", idx, img.s, 0, <<>>)>>
           /\ \/ /\ img_fn' = None
                 /\ image_link' = None
                 /\ pc' = "write_link"
                 /\ UNCHANGED img_response
              \/ /\ img_fn' = Str(IMAGE_ROOT \o <<"/">> \o img_name)
                 /\ image_link' = Str(IMAGE_WEB_ROOT \o <<"/">> \o img_name)
                 /\ \E r \in ImageResponses : img_response' = r
                 /\ pc' = "write_image"
    /\ UNCHANGED <<argv_len, response, data_json, data, links, idx, link,
                   priority, img, fs, error, stub_vars>>

\* A download that asks for the image before it announces it.
DownloadThumbnailGetFirst ==
    /\ pc = "download"
    /\ LET img_name == img_name_of(img.s)
       IN  /\ img_fn' = Str(IMAGE_ROOT \o <<"/">> \o img_name)
           /\ image_link' = Str(IMAGE_WEB_ROOT \o <<"/">> \o img_name)
           /\ events' = events
                 \o <<Event("get", idx, img.s, 0, <<>>),
                      Event("print", idx, DownloadLine, 0, <<>>)>>
           /\ \/ /\ raise("RequestException")
                 /\ UNCHANGED img_response
              \/ /\ \E r \in ImageResponses : img_response' = r
                 /\ pc' = "write_image"
                 /\ error' = error
    /\ UNCHANGED <<argv_len, response, data_json, data, links, idx, link,
                   priority, img, fs, stub_vars>>

\* Lines 111-116: the download line, the file names, the GET of the image:
\* requests.get raises, or returns the response whatever its status.
DownloadThumbnail ==
    /\ pc = "download"
    /\ LET img_name == img_name_of(img.s)
       IN  /\ img_fn' = Str(IMAGE_ROOT \o <<"/">> \o img_name)
           /\ image_link' = Str(IMAGE_WEB_ROOT \o <<"/">> \o img_name)
           /\ events' = events
                 \o <<Event("print", idx, DownloadLine, 0, <<>>),
                      Event("get", idx, img.s, 0, <<>>)>>
           /\ \/ /\ raise("RequestException")
                 /\ UNCHANGED img_response
              \/ /\ \E r \in ImageResponses : img_response' = r
                 /\ pc' = "write_image"
                 /\ error' = error
    /\ UNCHANGED <<argv_len, response, data_json, data, links, idx, link,
                   priority, img, fs, stub_vars>>

\* Lines 117-118: the body of the response is written to img_fn.  A name that
\* ends in "/" (an image URL with no last segment) names the image directory,
\* and open() raises.
WriteImage ==
    /\ pc = "write_image"
    /\ IF img_fn.s[Len(img_fn.s)] = "/"
       THEN raise("IsADirectoryError") /\ UNCHANGED <<fs, events>>
       ELSE /\ fs' = write_file(fs, img_fn.s, img_response.content)
            /\ events' = Append(events, Event("write_image", idx, img_fn.s,
                                              img_response.status,
                                              img_response.content))
            /\ pc' = "write_link"
            /\ error' = error
    /\ UNCHANGED <<argv_len, response, data_json, data, links, idx, link,
                   priority, img, img_fn, image_link, img_response, stub_vars>>

Delimiter == <<"-", "-", "-">>

TitleField == <<"t", "i", "t", "l", "e", ":", " ">>

LinkField == <<"l", "i", "n", "k", ":", " ">>

PriorityField == <<"p", "r", "i", "o", "r", "i", "t", "y", ":", " ">>

ImageField == <<"i", "m", "a", "g", "e", ":", " ">>

\* A descriptor that always has an image line.
file_lines_always_image(url, prio, title, fn, web) ==
    <<Delimiter, TitleField \o title, LinkField \o url,
      PriorityField \o format_int(prio)>>
      \o <<ImageField \o (IF Truthy(web) THEN web.s ELSE <<"N", "o", "n", "e">>)>>
      \o <<Delimiter, <<>>>>

\* Lines 48-58, create_link_file: the lines written, each without its "\n".
file_lines(url, prio, title, fn, web) ==
    <<Delimiter, TitleField \o title, LinkField \o url,
      PriorityField \o format_int(prio)>>
      \o (IF Truthy(fn) THEN <<ImageField \o web.s>> ELSE <<>>)
      \o <<Delimiter, <<>>>>

\* Line 121: f"{link_root}/{stub}.md"
link_fn_of(title) == LINK_ROOT \o <<"/">> \o stub_title(title) \o <<".", "m", "d">>

\* A write that leaves an existing file alone.
store_link_file_keep_first(files, path, content) ==
    IF path \in DOMAIN files THEN files ELSE write_file(files, path, content)

\* Line 48: open(link_fn, "w") creates the file or truncates it.
store_link_file(files, path, content) == write_file(files, path, content)

\* Lines 120-123: the slug, the file name, the descriptor; capture_link returns.
WriteDescriptor ==
    /\ pc = "write_link"
    /\ LET link_fn == link_fn_of(link.title)
           content == file_lines(link.url, priority, link.title, img_fn, image_link)
       IN  /\ fs' = store_link_file(fs, link_fn, content)
           /\ events' = Append(events, Event("write_link", idx, link_fn, 0, content))
    /\ pc' = "loop"
    /\ UNCHANGED <<argv_len, response, data_json, data, links, idx, link,
                   priority, img, img_fn, image_link, img_response, error,
                   stub_vars>>

-----------------------------------------------------------------------------
(* The whole script *)

Init ==
    /\ pc = "main"
    /\ argv_len \in 1..3
    /\ response = None
    /\ data_json = None
    /\ data = None
    /\ links = <<>>
    /\ idx = 0
    /\ link = None
    /\ priority = 0
    /\ img = None
    /\ img_fn = None
    /\ image_link = None
    /\ img_response = None
    /\ fs = NoFiles
    /\ error = "none"
    /\ events = <<>>
    /\ stub_in = <<>>
    /\ stub_out = <<>>
    /\ stub_twice = <<>>

Next ==
    \/ Main
    \/ FetchPage
    \/ ExtractPayload
    \/ NormalizeLinks
    \/ ForLoop
    \/ CaptureStart
    \/ DownloadThumbnail
    \/ WriteImage
    \/ WriteDescriptor

Spec == Init /\ [][Next]_vars

-----------------------------------------------------------------------------
(* capture_link alone, on every entry of LinkEntries *)

InitLink ==
    /\ pc = "capture"
    /\ argv_len = 2
    /\ response = None
    /\ data_json = None
    /\ data = None
    /\ link \in LinkEntries
    /\ links = <<link>>
    /\ idx = 1
    /\ priority = 0
    /\ img = None
    /\ img_fn = None
    /\ image_link = None
    /\ img_response = None
    /\ fs = NoFiles
    /\ error = "none"
    /\ events = <<>>
    /\ stub_in = <<>>
    /\ stub_out = <<>>
    /\ stub_twice = <<>>

NextLink ==
    \/ CaptureStart
    \/ DownloadThumbnail
    \/ WriteImage
    \/ WriteDescriptor

SpecLink == InitLink /\ [][NextLink]_vars

-----------------------------------------------------------------------------
(* stub_title alone, on every title of at most MaxTitleLen characters *)

\* Letters of both cases, a digit, the hyphen, punctuation, a space, a newline,
\* and three characters outside ASCII that str.lower() changes.
TitleChars == {"a", "A", "0", "-", "!", " ", "\n", "U+0130", "U+00C9", "U+212A"}

InitStub ==
    /\ pc = "stub"
    /\ argv_len = 2
    /\ response = None
    /\ data_json = None
    /\ data = None
    /\ link = None
    /\ links = <<>>
    /\ idx = 0
    /\ priority = 0
    /\ img = None
    /\ img_fn = None
    /\ image_link = None
    /\ img_response = None
    /\ fs = NoFiles
    /\ error = "none"
    /\ events = <<>>
    /\ stub_in \in BoundedSeq(TitleChars, MaxTitleLen)
    /\ stub_out = <<>>
    /\ stub_twice = <<>>

\* Lines 71-73: stub_title(title) is called.
StubTitle ==
    /\ pc = "stub"
    /\ stub_out' = stub_title(stub_in)
    /\ pc' = "stubbed"
    /\ UNCHANGED <<argv_len, response, data_json, data, links, idx, link,
                   priority, img, img_fn, image_link, img_response, fs, error,
                   events, stub_in, stub_twice>>

\* stub_title is called on the slug it returned.
StubTitleAgain ==
    /\ pc = "stubbed"
    /\ stub_twice' = stub_title(stub_out)
    /\ pc' = "restubbed"
    /\ UNCHANGED <<argv_len, response, data_json, data, links, idx, link,
                   priority, img, img_fn, image_link, img_response, fs, error,
                   events, stub_in, stub_out>>

NextStub ==
    \/ StubTitle
    \/ StubTitleAgain

SpecStub == InitStub /\ [][NextStub]_vars

-----------------------------------------------------------------------------
(* Properties *)

\* C3: for every title, the slug stub_title returns holds only characters of
\* [a-z0-9] and hyphens, neither starts nor ends with a hyphen, holds no two
\* adjacent hyphens, and slugifying the slug returns it unchanged.
C3_SlugWellFormedAndIdempotent ==
    /\ pc \in {"stubbed", "restubbed"} =>
          /\ \A i \in 1..Len(stub_out) : stub_out[i] \in AsciiLower \cup AsciiDigit \cup {"-"}
          /\ stub_out # <<>> => stub_out[1] # "-" /\ stub_out[Len(stub_out)] # "-"
          /\ \A i \in 1..(Len(stub_out) - 1) : ~(stub_out[i] = "-" /\ stub_out[i + 1] = "-")
    /\ pc = "restubbed" => stub_twice = stub_out

\* A title whose lower-casing changes its length, with a run of two characters
\* outside the class and an upper-case letter, has been slugified twice.
C3_Witness ==
    /\ pc = "restubbed"
    /\ stub_in = <<"U+0130", " ", "A">>
    /\ stub_out = <<"i", "-", "a">>
    /\ stub_twice = stub_out

\* The entries found at props.pageProps.links of the page fetched.
RawLinks == response.content.scripts[1].json.props.pageProps.links

\* collect_link_definitions has returned.
Collected ==
    \/ pc \in {"loop", "capture", "download", "write_image", "write_link", "done"}
    \/ pc = "aborted" /\ idx >= 1

\* C1: the links collect_link_definitions returns are exactly the entries of
\* props.pageProps.links that have a "url" key, in their original order: as many
\* as there are such entries, none lacking "url", and no error is raised for an
\* entry that lacks it.
C1_ValidLinksAreTheEntriesWithUrl ==
    /\ Collected =>
          LET raw == RawLinks
              keep == {i \in 1..Len(raw) : "url" \in DOMAIN raw[i]}
          IN  /\ Len(links) = Cardinality(keep)
              /\ \A k \in 1..Len(links) : "url" \in DOMAIN links[k]
              /\ \E f \in [1..Len(links) -> keep] :
                    /\ \A a, b \in 1..Len(links) : a < b => f[a] < f[b]
                    /\ \A k \in 1..Len(links) : links[k] = raw[f[k]]
    /\ pc = "aborted" /\ error = "KeyError" =>
          ~("props" \in DOMAIN data /\ "pageProps" \in DOMAIN data.props
              /\ "links" \in DOMAIN data.props.pageProps)

\* A payload of two entries, the first without url, has been normalized to the
\* second alone.
C1_Witness ==
    /\ pc = "loop"
    /\ idx = 0
    /\ Len(RawLinks) = 2
    /\ "url" \notin DOMAIN RawLinks[1]
    /\ links = <<RawLinks[2]>>

HasModifierThumbnail(l) ==
    "modifiers" \in DOMAIN l /\ "thumbnailImage" \in DOMAIN l.modifiers

\* The URLs capture_link has asked for.
Fetched == {events[n].arg : n \in {m \in 1..Len(events) : events[m].op = "get"}}

\* C2: the thumbnail capture_link uses is the value of the direct "thumbnail"
\* field if the entry has one, otherwise the value of modifiers.thumbnailImage
\* if present, otherwise none; the image fetched is that value when it is a
\* non-empty URL, and an entry with a usable modifiers.thumbnailImage goes
\* without image only if it has a direct "thumbnail".
C2_ThumbnailOrderedLookup ==
    pc # "capture" =>
        /\ "thumbnail" \in DOMAIN link => img = link.thumbnail
        /\ "thumbnail" \notin DOMAIN link /\ HasModifierThumbnail(link) =>
              img = link.modifiers.thumbnailImage
        /\ "thumbnail" \notin DOMAIN link /\ ~HasModifierThumbnail(link) => img = None
        /\ Fetched = IF Truthy(img) /\ pc # "download" THEN {img.s} ELSE {}
        /\ (/\ HasModifierThumbnail(link)
            /\ Truthy(link.modifiers.thumbnailImage)
            /\ pc # "download"
            /\ Fetched = {}) => "thumbnail" \in DOMAIN link

\* An entry with both a direct thumbnail and modifiers.thumbnailImage has had
\* the direct one fetched.
C2_Witness ==
    /\ pc = "loop"
    /\ "thumbnail" \in DOMAIN link
    /\ HasModifierThumbnail(link)
    /\ link.thumbnail = Str(ThumbA)
    /\ link.modifiers.thumbnailImage = Str(ThumbB)
    /\ Fetched = {ThumbA}

\* The text after the last "/" of a text (all of it when it holds none).
LastSegment(s) ==
    LET slashes == {i \in 1..Len(s) : s[i] = "/"}
        last == IF slashes = {} THEN 0
                ELSE CHOOSE i \in slashes : \A j \in slashes : j <= i
    IN  SubSeq(s, last + 1, Len(s))

DigitValue(c) == CHOOSE d \in 0..9 : DigitChar[d + 1] = c

RECURSIVE parse_int(_)
parse_int(digits) ==
    IF Len(digits) = 1 THEN DigitValue(digits[1])
    ELSE 10 * parse_int(SubSeq(digits, 1, Len(digits) - 1))
           + DigitValue(digits[Len(digits)])

StartsWith(s, prefix) ==
    Len(s) >= Len(prefix) /\ SubSeq(s, 1, Len(prefix)) = prefix

After(s, prefix) == SubSeq(s, Len(prefix) + 1, Len(s))

\* The events of record i that precede event n.
Earlier(n, i, op) ==
    {m \in 1..(n - 1) : events[m].op = op /\ events[m].i = i}

\* C4: every descriptor written holds the lines "---", "title: <title>",
\* "link: <url>", "priority: <integer>", then "image: <web root>/<last segment
\* of the thumbnail URL>" exactly when a thumbnail URL was resolved for the
\* record and its image file written under the image root with that name, then
\* "---" and an empty line.
C4_DescriptorLines ==
    \A n \in 1..Len(events) :
        events[n].op = "write_link" =>
            LET e == events[n]
                l == links[e.i]
                gets == Earlier(n, e.i, "get")
                writes == Earlier(n, e.i, "write_image")
                header == <<Delimiter, TitleField \o l.title, LinkField \o l.url>>
                footer == <<Delimiter, <<>>>>
                body == e.body
            IN  /\ Len(body) \in {6, 7}
                /\ SubSeq(body, 1, 3) = header
                /\ StartsWith(body[4], PriorityField)
                /\ Len(body[4]) > Len(PriorityField)
                /\ \A c \in 1..Len(After(body[4], PriorityField)) :
                      After(body[4], PriorityField)[c] \in AsciiDigit
                /\ SubSeq(body, Len(body) - 1, Len(body)) = footer
                /\ (gets = {}) = (writes = {})
                /\ (Len(body) = 7) = (writes # {})
                /\ Len(body) = 7 =>
                      \E g \in gets, w \in writes :
                          LET name == LastSegment(events[g].arg)
                          IN  /\ events[w].arg = IMAGE_ROOT \o <<"/">> \o name
                              /\ events[w].arg \in DOMAIN fs
                              /\ body[5] = ImageField \o IMAGE_WEB_ROOT \o <<"/">> \o name

\* An entry with a thumbnail has had its image written and its descriptor
\* written with the image line.
C4_Witness ==
    \E n \in 1..Len(events) :
        /\ events[n].op = "write_link"
        /\ Len(events[n].body) = 7
        /\ events[n].body[5] = ImageField \o IMAGE_WEB_ROOT \o <<"/", "a", ".", "p">>
        /\ (IMAGE_ROOT \o <<"/", "a", ".", "p">>) \in DOMAIN fs

\* C5: the priority written to the descriptor of an entry is its position plus
\* one, and is at least 1.
C5_PriorityIsPositionPlusOne ==
    \A n \in 1..Len(events) :
        events[n].op = "write_link" =>
            LET line == events[n].body[4]
                l == links[events[n].i]
            IN  /\ StartsWith(line, PriorityField)
                /\ parse_int(After(line, PriorityField)) = l.position + 1
                /\ parse_int(After(line, PriorityField)) >= 1

\* The descriptor of an entry at position 9 has been written with priority 10.
C5_Witness ==
    \E n \in 1..Len(events) :
        /\ events[n].op = "write_link"
        /\ links[events[n].i].position = 9
        /\ events[n].body[4] = PriorityField \o <<"1", "0">>

\* C6: an HTTP GET that returns a non-success status fails: the body of a
\* non-success page response is never parsed for links, and the body of a
\* non-success image response is never written to the image directory.
C6_NonSuccessStatusFails ==
    /\ pc # "fetch_page" /\ response # None /\ ~IsSuccess(response.status) =>
          data = None /\ links = <<>>
    /\ \A n \in 1..Len(events) :
          events[n].op = "write_image" => IsSuccess(events[n].status)

\* The operations of record i, in the order they happened.
OpsOf(i) ==
    LET mine == SelectSeq(events, LAMBDA e : e.i = i)
    IN  [n \in 1..Len(mine) |-> mine[n].op]

Written(i, op) == \E n \in 1..Len(events) : events[n].i = i /\ events[n].op = op

BadPage ==
    LET scripts == response.content.scripts
    IN  \/ scripts = <<>>
        \/ scripts[1] = None
        \/ scripts[1].json = Invalid
        \/ "props" \notin DOMAIN scripts[1].json
        \/ "pageProps" \notin DOMAIN scripts[1].json.props
        \/ "links" \notin DOMAIN scripts[1].json.props.pageProps

\* C8: a page with no structured-data script, with text that is not JSON, or
\* without the path props.pageProps.links ends the run with an error and not
\* with an empty list of links, before any link is processed: nothing has been
\* printed, fetched or written.
C8_BadPageIsAnError ==
    response # None /\ BadPage /\ pc \notin {"extract", "normalize"} =>
        /\ pc = "aborted"
        /\ error \in {"IndexError", "TypeError", "JSONDecodeError", "KeyError"}
        /\ links = <<>>
        /\ fs = NoFiles
        /\ events = <<>>

\* A page whose JSON has props but no pageProps has ended the run with a
\* KeyError.
C8_Witness ==
    /\ pc = "aborted"
    /\ error = "KeyError"
    /\ response.content.scripts[1].json = [props |-> EmptyObj]
    /\ fs = NoFiles

IsPrefix(s, t) == Len(s) <= Len(t) /\ SubSeq(t, 1, Len(s)) = s

\* C9: records are processed one at a time in payload order, and for each the
\* progress line is printed, then (only with a thumbnail) the download line is
\* printed, the image fetched and written, then the descriptor is written;
\* nothing happens for a record before the descriptor of the one before it is
\* written, and a descriptor with an image line follows its image file.
C9_EventsInOrder ==
    /\ \A p, q \in 1..Len(events) : p < q => events[p].i <= events[q].i
    /\ \A n \in 1..Len(events) : events[n].i \in 1..Len(links)
    /\ \A i \in 1..Len(links) :
          LET mine == SelectSeq(events, LAMBDA e : e.i = i)
              ops == OpsOf(i)
          IN  /\ \/ IsPrefix(ops, <<"print", "write_link">>)
                 \/ IsPrefix(ops, <<"print", "print", "get", "write_image", "write_link">>)
              /\ Len(mine) >= 1 => mine[1].arg = ProgressLine(links[i].title)
              /\ Len(mine) >= 2 /\ mine[2].op = "print" => mine[2].arg = DownloadLine
              /\ (Len(mine) >= 2 /\ mine[2].op = "print") =>
                    Truthy(resolve_thumbnail(links[i]))
              /\ (Len(mine) >= 2 /\ mine[2].op = "write_link") =>
                    ~Truthy(resolve_thumbnail(links[i]))
              /\ (i > 1 /\ Len(mine) >= 1) =>
                    LET before == OpsOf(i - 1)
                    IN  before # <<>> /\ before[Len(before)] = "write_link"
              /\ \A n \in 1..Len(mine) :
                    (mine[n].op = "write_link" /\ Len(mine[n].body) = 7) =>
                        \E m \in 1..(n - 1) : mine[m].op = "write_image"

\* A run of two records has ended, the first with a thumbnail and the second
\* without.
C9_Witness ==
    /\ pc = "done"
    /\ Len(links) = 2
    /\ OpsOf(1) = <<"print", "print", "get", "write_image", "write_link">>
    /\ OpsOf(2) = <<"print", "write_link">>

\* The descriptor files among the files written.
DescriptorFiles == {p \in DOMAIN fs : StartsWith(p, LINK_ROOT \o <<"/">>)}

\* C10: after a run that ends normally the descriptor files are the files
\* named by the distinct slugs of the valid records' titles, and each holds
\* the descriptor of the last record, in payload order, that has its slug.
C10_DescriptorsKeyedBySlug ==
    pc = "done" =>
        /\ DescriptorFiles = {link_fn_of(links[j].title) : j \in 1..Len(links)}
        /\ Cardinality(DescriptorFiles)
              = Cardinality({stub_title(links[j].title) : j \in 1..Len(links)})
        /\ \A j \in 1..Len(links) :
              (\A k \in (j + 1)..Len(links) :
                    stub_title(links[k].title) # stub_title(links[j].title)) =>
                  /\ fs[link_fn_of(links[j].title)][2] = TitleField \o links[j].title
                  /\ \E n \in 1..Len(events) :
                        /\ events[n].i = j
                        /\ events[n].op = "write_link"
                        /\ fs[link_fn_of(links[j].title)] = events[n].body

\* A run of two records whose different titles share a slug has ended with one
\* descriptor file, which holds the second record's descriptor.
C10_Witness ==
    /\ pc = "done"
    /\ Len(links) = 2
    /\ links[1].title = <<"a">>
    /\ links[2].title = <<"A", "!">>
    /\ Cardinality(DescriptorFiles) = 1
    /\ fs[link_fn_of(<<"a">>)][2] = TitleField \o <<"A", "!">>

====
